---- MODULE Spec2Model ----
(***************************************************************************)
(* Model of back-to-school.py: a one-dimensional cellular automaton with   *)
(* a 5-cell neighbourhood, and the recogniser that labels the sequence of  *)
(* lines as vanishing, blinking, gliding or other.                         *)
(*                                                                         *)
(* A line is a Python string; it is modelled as a sequence of one-char     *)
(* strings.  Python indices start at 0, TLA+ sequences at 1: At(line, i)   *)
(* reads Python index i.                                                   *)
(***************************************************************************)
EXTENDS Integers, Sequences, FiniteSets, TLC

VARIABLES lines, pc, out, world

vars == <<lines, pc, out, world>>

\* ------------------------------------------------------------------------
\* Program constants
EMPTY == "."
FILLED == "#"
MAX_ROUNDS == 100

\* ------------------------------------------------------------------------
\* Bounds of the model
MaxLen == 5         \* longest input line enumerated exhaustively
MaxRowLen == 2      \* longest row in the histories handed to printPattern alone
MaxHist == 3        \* longest history handed to printPattern alone
MaxPadLen == 5      \* longest row handed to padTrimLine alone

\* ------------------------------------------------------------------------
\* Python string primitives used by the program

Min(S) == CHOOSE x \in S : \A y \in S : x <= y
Max(S) == CHOOSE x \in S : \A y \in S : x >= y

\* " " * n (the empty string when n <= 0)
Blanks(n) == [k \in 1..n |-> " "]

\* number of leading whitespace characters of s
LeadingBlanks(s) ==
  IF \A k \in 1..Len(s) : s[k] = " " THEN Len(s)
  ELSE (CHOOSE k \in 1..Len(s) : s[k] # " " /\ \A j \in 1..(k-1) : s[j] = " ") - 1

\* s.lstrip()
lstrip(s) == SubSeq(s, LeadingBlanks(s) + 1, Len(s))

\* s.rstrip()
rstrip(s) ==
  IF \A k \in 1..Len(s) : s[k] = " " THEN <<>>
  ELSE SubSeq(s, 1, CHOOSE k \in 1..Len(s) : s[k] # " " /\ \A j \in (k+1)..Len(s) : s[j] = " ")

\* s.strip() (lstrip(s) is bound to t so that it is evaluated once)
strip(s) == CHOOSE r \in {rstrip(t) : t \in {lstrip(s)}} : TRUE

\* s[a:b] with Python's treatment of negative and out-of-range bounds
PySlice(s, a, b) ==
  LET n  == Len(s)
      lo == IF a < 0 THEN (IF a + n < 0 THEN 0 ELSE a + n) ELSE (IF a > n THEN n ELSE a)
      hi == IF b < 0 THEN (IF b + n < 0 THEN 0 ELSE b + n) ELSE (IF b > n THEN n ELSE b)
  IN  SubSeq(s, lo + 1, hi)

\* s[i] for an index that does not raise IndexError
At(s, i) == IF i < 0 THEN s[i + Len(s) + 1] ELSE s[i + 1]

\* s[i] raises IndexError
OutOfRange(s, i) == i >= Len(s) \/ i < 0 - Len(s)

\* s.count(c)
Count(s, c) == Cardinality({k \in 1..Len(s) : s[k] = c})

\* line.replace(EMPTY, " ")
replaceEmpty(line) == [k \in 1..Len(line) |-> IF line[k] = EMPTY THEN " " ELSE line[k]]

\* ------------------------------------------------------------------------
\* Module-level functions of the program

getFirstFilledIdx(line) == Len(line) - Len(lstrip(line))

\* getLastFilledIdx returning the last index of the line
getLastFilledIdx_end(line) == Len(line) - 1

getLastFilledIdx(line) == Len(rstrip(line)) - 1

getBlock(pos, line) == PySlice(line, pos - 2, pos + 1 + 2)

\* padTrimLine keeping 2 blanks instead of 3
padTrimLine_pad2(line) ==
  LET lfill  == 2 - getFirstFilledIdx(line)
      rfill  == 2 - (Len(line) - getLastFilledIdx(line) - 1)
      padded == Blanks(lfill) \o line \o Blanks(rfill)
  IN  IF rfill < 0 THEN PySlice(padded, 0, rfill) ELSE padded

\* padTrimLine without the removal of the trailing blanks in excess of 3
padTrimLine_noTrim(line) ==
  LET lfill  == 3 - getFirstFilledIdx(line)
      rfill  == 3 - (Len(line) - getLastFilledIdx(line) - 1)
  IN  Blanks(lfill) \o line \o Blanks(rfill)

\* padTrimLine always adding 3 blanks in front
padTrimLine_lfill3(line) ==
  LET lfill  == 3
      rfill  == 3 - (Len(line) - getLastFilledIdx(line) - 1)
      padded == Blanks(lfill) \o line \o Blanks(rfill)
  IN  IF rfill < 0 THEN PySlice(padded, 0, rfill) ELSE padded

padTrimLine(line) ==
  LET lfill  == 3 - getFirstFilledIdx(line)
      rfill  == 3 - (Len(line) - getLastFilledIdx(line) - 1)
      padded == Blanks(lfill) \o line \o Blanks(rfill)
  IN  IF rfill < 0 THEN PySlice(padded, 0, rfill) ELSE padded

\* ------------------------------------------------------------------------
\* GameState

linesFilled == Len(lines)

\* the indices the loop of fillNextLine visits: range(startIdx, stopIdx+1)
visited(lineAbove) ==
  (getFirstFilledIdx(lineAbove) - 1) .. (getLastFilledIdx(lineAbove) + 1)

\* the loop body with rule #2 testing 2 or 4 on a count that includes the
\* filled square itself
ruleFills_2or4(i, lineAbove) ==
  LET filled == Count(getBlock(i, lineAbove), FILLED)
  IN  IF At(lineAbove, i) = " "
      THEN filled = 2 \/ filled = 3
      ELSE filled = 2 \/ filled = 4

\* the body of the loop at index i sets currLineArr[i] = FILLED
ruleFills(i, lineAbove) ==
  LET filled == Count(getBlock(i, lineAbove), FILLED)
  IN  IF At(lineAbove, i) = " "
      THEN filled = 2 \/ filled = 3
      ELSE filled = 3 \/ filled = 5

\* lineAbove[i] or currLineArr[i] raises IndexError for some visited index
fillRaises(lineAbove) == \E i \in visited(lineAbove) : OutOfRange(lineAbove, i)

\* the new line fillNextLine appends (when it does not raise)
fillNextLine(lineAbove) ==
  LET n == Len(lineAbove)
      currLineArr ==
        [k \in 1..n |->
           IF \E i \in visited(lineAbove) :
                /\ (IF i < 0 THEN i + n ELSE i) = k - 1
                /\ ruleFills(i, lineAbove)
           THEN FILLED ELSE " "]
      \* newline = ''.join(currLineArr); newline = padTrimLine(newline)
  IN  CHOOSE r \in {padTrimLine(newline) : newline \in {currLineArr}} : TRUE


\* the body of the loop with the identity test ahead of the blank test
loopBody_blinkFirst(L, k) ==
  LET lastline         == L[Len(L)]
      lastlineStripped == strip(lastline)
  IN  IF lastline = L[k] THEN "blinking"
      ELSE IF lastlineStripped = <<>> THEN "vanishing"
      ELSE IF lastlineStripped = strip(L[k]) THEN "gliding"
      ELSE "none"

\* the body of the loop without the test of the stripped lines
loopBody_noGlide(L, k) ==
  LET lastline         == L[Len(L)]
      lastlineStripped == strip(lastline)
  IN  IF lastlineStripped = <<>> THEN "vanishing"
      ELSE IF lastline = L[k] THEN "blinking"
      ELSE "none"

\* the body of the loop of printPattern for the k-th earlier line: what it
\* prints before it returns ("none": it falls through to the next line)
loopBody(L, k) ==
  LET lastline         == L[Len(L)]
      lastlineStripped == strip(lastline)
  IN  IF lastlineStripped = <<>> THEN "vanishing"
      ELSE IF lastline = L[k] THEN "blinking"
      ELSE IF lastlineStripped = strip(L[k]) THEN "gliding"
      ELSE "none"

\* the loop "for line in self.lines[:-1]": it ends at the first line whose
\* body returns ("none": it runs to the end)
scanLines(L) ==
  LET returning == {k \in 1..(Len(L) - 1) : loopBody(L, k) # "none"}
  IN  IF returning = {} THEN "none" ELSE loopBody(L, Min(returning))

\* printPattern with > in place of >= in the test against MAX_ROUNDS
printPattern_gt(L) ==
  LET r == scanLines(L)
  IN  IF r # "none" THEN r
      ELSE IF Len(L) > MAX_ROUNDS THEN "other"
      ELSE "none"

\* printPattern with the blank test done once, before the loop
printPattern_vanishFirst(L) ==
  LET r == scanLines(L)
  IN  IF strip(L[Len(L)]) = <<>> THEN "vanishing"
      ELSE IF r # "none" THEN r
      ELSE IF Len(L) >= MAX_ROUNDS THEN "other"
      ELSE "none"

\* printPattern looking for an identical line among all earlier lines before
\* looking for a shifted one
printPattern_kindFirst(L) ==
  LET lastline == L[Len(L)]
      earlier  == 1..(Len(L) - 1)
  IN  IF earlier # {} /\ strip(lastline) = <<>> THEN "vanishing"
      ELSE IF \E k \in earlier : lastline = L[k] THEN "blinking"
      ELSE IF \E k \in earlier : strip(lastline) = strip(L[k]) THEN "gliding"
      ELSE IF Len(L) >= MAX_ROUNDS THEN "other"
      ELSE "none"

\* printPattern with the test against MAX_ROUNDS ahead of the loop
printPattern_capFirst(L) ==
  LET r == scanLines(L)
  IN  IF Len(L) >= MAX_ROUNDS THEN "other"
      ELSE r

\* what printPattern prints for the lines L ("none": it returns False)
printPattern(L) ==
  LET r == scanLines(L)
  IN  IF r # "none" THEN r
      ELSE IF Len(L) >= MAX_ROUNDS THEN "other"
      ELSE "none"

\* ------------------------------------------------------------------------
\* The rule as the comment of fillNextLine states it, on an unbounded row:
\* a set of integer positions of the filled squares.

cellsOf(line) == {i \in 0..(Len(line) - 1) : line[i + 1] = FILLED}

nextTo(p, S) == Cardinality({q \in {p - 2, p - 1, p + 1, p + 2} : q \in S})

ruleStep(S) ==
  IF S = {} THEN {}
  ELSE {p \in (Min(S) - 3)..(Max(S) + 3) :
          IF p \notin S
          THEN nextTo(p, S) = 2 \/ nextTo(p, S) = 3
          ELSE nextTo(p, S) = 2 \/ nextTo(p, S) = 4}

\* ------------------------------------------------------------------------
\* play: one game per input line

\* an input line that reaches MAX_ROUNDS without a recognised pattern
LongLine == <<"#", "#", ".", ".", ".", ".", "#", ".", "#", "#", "#">>

\* an input line whose pattern is recognised when the game holds MAX_ROUNDS
\* lines
CapLine == <<"#", ".", "#", "#", "#", ".", "#", "#", ".", ".", ".", "#", "#">>

InputLines ==
  UNION {[1..n -> {EMPTY, FILLED}] : n \in 1..MaxLen} \cup {LongLine, CapLine}

\* GameState(padTrimLine(line.replace(EMPTY, " ")))
Init ==
  \E line \in InputLines :
    /\ lines = <<padTrimLine(replaceEmpty(line))>>
    /\ world = <<cellsOf(padTrimLine(replaceEmpty(line)))>>
    /\ pc = "test"
    /\ out = <<>>

\* while game.linesFilled() < MAX_ROUNDS
LoopTest ==
  /\ pc = "test"
  /\ pc' = IF linesFilled < MAX_ROUNDS THEN "fill" ELSE "done"
  /\ UNCHANGED <<lines, out, world>>

\* fillNextLine storing the new line over the last one
FillNextLine_overwrite ==
  /\ pc = "fill"
  /\ IF fillRaises(lines[Len(lines)])
     THEN /\ pc' = "crash"
          /\ UNCHANGED <<lines, out, world>>
     ELSE /\ lines' = [lines EXCEPT ![Len(lines)] = fillNextLine(lines[Len(lines)])]
          /\ world' = [world EXCEPT ![Len(world)] = ruleStep(world[Len(world)])]
          /\ pc' = "print"
          /\ UNCHANGED out

\* game.fillNextLine()
FillNextLine ==
  /\ pc = "fill"
  /\ IF fillRaises(lines[Len(lines)])
     THEN /\ pc' = "crash"
          /\ UNCHANGED <<lines, out, world>>
     ELSE /\ lines' = Append(lines, fillNextLine(lines[Len(lines)]))
          /\ world' = Append(world, ruleStep(world[Len(world)]))
          /\ pc' = "print"
          /\ UNCHANGED out

\* the round without the break ("continue" in its place)
PrintPattern_continue ==
  /\ pc = "print"
  /\ IF printPattern(lines) # "none"
     THEN out' = Append(out, printPattern(lines))
     ELSE UNCHANGED out
  /\ pc' = "test"
  /\ UNCHANGED <<lines, world>>

\* if game.printPattern(): break
PrintPattern ==
  /\ pc = "print"
  /\ IF printPattern(lines) # "none"
     THEN /\ out' = Append(out, printPattern(lines))
          /\ pc' = "done"
     ELSE /\ pc' = "test"
          /\ UNCHANGED out
  /\ UNCHANGED <<lines, world>>

Next == LoopTest \/ FillNextLine \/ PrintPattern

\* the loop of play run to its end from the lines L: what it prints ("none"
\* if it ends without printing) and how many lines the game then holds
RECURSIVE playFrom(_)
playFrom(L) ==
  IF ~(Len(L) < MAX_ROUNDS) THEN <<"none", Len(L)>>
  ELSE LET filledL == Append(L, fillNextLine(L[Len(L)]))
       IN  IF printPattern(filledL) # "none"
           THEN <<printPattern(filledL), Len(filledL)>>
           ELSE playFrom(filledL)

Spec == Init /\ [][Next]_vars

\* the loop is sequential code: it keeps running until it ends
FairSpec == Spec /\ WF_vars(Next)

\* ------------------------------------------------------------------------
\* printPattern and one round on their own: printPattern applied to any
\* history of short rows, and fillNextLine followed by printPattern applied
\* to the first line of a game.

Rows == UNION {[1..n -> {" ", FILLED}] : n \in 1..MaxRowLen}

Histories == UNION {[1..h -> Rows] : h \in 1..MaxHist}

ShortLines == UNION {[1..n -> {EMPTY, FILLED}] : n \in 1..MaxRowLen}

InitClassify ==
  \/ /\ lines \in Histories
     /\ world = <<>>
     /\ pc = "print"
     /\ out = <<>>
  \/ \E line \in ShortLines :
       /\ lines = <<padTrimLine(replaceEmpty(line))>>
       /\ world = <<cellsOf(padTrimLine(replaceEmpty(line)))>>
       /\ pc = "fill"
       /\ out = <<>>

NextClassify == FillNextLine \/ PrintPattern

SpecClassify == InitClassify /\ [][NextClassify]_vars

\* ------------------------------------------------------------------------
\* padTrimLine and fillNextLine on their own: padTrimLine applied twice to
\* any row, and fillNextLine applied to any blank row.

AnyRows == UNION {[1..n -> {" ", FILLED}] : n \in 1..MaxPadLen}

InitRows ==
  \E row \in AnyRows :
    /\ lines = <<row>>
    /\ world = <<cellsOf(row)>>
    /\ out = <<>>
    /\ \/ pc = "pad"
       \/ pc = "fill" /\ cellsOf(row) = {}

\* line = padTrimLine(line)
PadTrimLine ==
  /\ pc = "pad"
  /\ lines' = Append(lines, padTrimLine(lines[Len(lines)]))
  /\ pc' = IF Len(lines) = 1 THEN "pad" ELSE "padded"
  /\ UNCHANGED <<out, world>>

NextRows == PadTrimLine \/ FillNextLine

SpecRows == InitRows /\ [][NextRows]_vars

\* ========================================================================
\* Properties

\* the row holds only blank and filled squares
wellFormed(row) == \A k \in 1..Len(row) : row[k] \in {" ", FILLED}

hasFilled(row) == \E k \in 1..Len(row) : row[k] = FILLED

\* number of blank squares before the first filled square
leadingEmpty(row) == Cardinality({k \in 1..Len(row) : \A j \in 1..k : row[j] = " "})

\* number of blank squares after the last filled square
trailingEmpty(row) == Cardinality({k \in 1..Len(row) : \A j \in k..Len(row) : row[j] = " "})

\* the padding invariant of a row
paddingOK(row) ==
  /\ wellFormed(row)
  /\ hasFilled(row) => (leadingEmpty(row) >= 3 /\ trailingEmpty(row) = 3)

\* the set S moved so that its smallest position is 0
normalised(S) == IF S = {} THEN {} ELSE {p - Min(S) : p \in S}

\* C1: every row of the history satisfies the padding invariant (at least 3
\* blanks before the first filled square, exactly 3 after the last one), so
\* each row fillNextLine appends to a row that satisfies it satisfies it too.
C1_PaddingPreserved == \A n \in 1..Len(lines) : paddingOK(lines[n])

\* a derived row with filled squares and more than 3 leading blanks, derived
\* from a row with filled squares
C1_Witness ==
  /\ Len(lines) >= 2
  /\ hasFilled(lines[1])
  /\ hasFilled(lines[2])
  /\ leadingEmpty(lines[2]) > 3

\* C2: the filled squares of every derived row are, up to a horizontal
\* translation, those the rule gives on the unbounded row that is blank
\* outside the stored row above (ruleStep looks 3 positions beyond the first
\* and last filled square, further than the loop of fillNextLine does).
C2_DerivedIsRule ==
  \A n \in 2..Len(lines) :
    normalised(cellsOf(lines[n])) = normalised(ruleStep(cellsOf(lines[n - 1])))

\* a derivation that fills the square just before the first filled square
\* and the square just after the last one of the row above
C2_Witness ==
  /\ Len(lines) >= 2
  /\ hasFilled(lines[1])
  /\ ruleStep(cellsOf(lines[1])) # {}
  /\ Min(ruleStep(cellsOf(lines[1]))) = Min(cellsOf(lines[1])) - 1
  /\ Max(ruleStep(cellsOf(lines[1]))) = Max(cellsOf(lines[1])) + 1
  /\ pc = "print"

\* C3: for every index i the loop of fillNextLine visits in the last row,
\* i - 2 .. i + 2 lie inside the row, so getBlock returns exactly 5 squares
\* and nothing raises.
C3_IndexSafety ==
  LET row == lines[Len(lines)]
  IN  /\ \A i \in visited(row) :
           /\ 0 <= i - 2
           /\ i + 2 <= Len(row) - 1
           /\ Len(getBlock(i, row)) = 5
      /\ pc # "crash"

\* fillNextLine has run on a row whose first visited index is 2 and whose
\* last visited index is 2 before the end
C3_Witness ==
  /\ Len(lines) >= 2
  /\ pc = "print"
  /\ hasFilled(lines[1])
  /\ Min(visited(lines[1])) = 2
  /\ Max(visited(lines[1])) + 2 = Len(lines[1]) - 1


\* the history was built by the game (world follows it row by row)
gameHistory == Len(world) = Len(lines)

\* the label printed, when exactly one was
label == out[1]

\* derivations performed so far: the starting row is round 0
round == Len(lines) - 1

\* the row without its leading and trailing blanks
core(row) ==
  IF hasFilled(row)
  THEN SubSeq(row, leadingEmpty(row) + 1, Len(row) - trailingEmpty(row))
  ELSE <<>>

\* the earlier rows printPattern's tests succeed on
blinkAt(m) == lines[Len(lines)] = lines[m]
glideAt(m) == core(lines[Len(lines)]) = core(lines[m])
hits == {m \in 1..(Len(lines) - 1) :
           ~hasFilled(lines[Len(lines)]) \/ blinkAt(m) \/ glideAt(m)}

\* C4: when "blinking" is printed because the last row equals an earlier
\* row m, the filled squares of the last generation are at the positions of
\* those of generation m on the unbounded row.
C4_BlinkingIsStationary ==
  out = <<"blinking">> =>
    \A m \in 1..(Len(lines) - 1) :
      (blinkAt(m) /\ \A k \in 1..(m - 1) : ~blinkAt(k))
        => world[Len(lines)] = world[m]

\* C5: when the last generation is the first one whose filled squares are
\* those of an earlier generation at the same positions of the unbounded
\* row, the game prints "blinking".
C5_InPlaceIsBlinking ==
  LET n == Len(lines)
  IN  ( /\ pc = "done"
        /\ world[n] # {}
        /\ \E m \in 1..(n - 1) : world[m] = world[n]
        /\ \A k \in 2..(n - 1) : \A m \in 1..(k - 1) : world[m] # world[k] )
      => out = <<"blinking">>

\* C6 as stated: a game ends with a pattern label before round 100 or with
\* "other" at exactly round 100.
C6_OtherAtRound100 ==
  pc = "done" =>
    /\ Len(out) = 1
    /\ \/ label # "other" /\ round < MAX_ROUNDS
       \/ label = "other" /\ round = MAX_ROUNDS

\* C6 amended: a game ends with exactly one label after at most
\* MAX_ROUNDS - 1 derivations, and "other" is printed at exactly round
\* MAX_ROUNDS - 1, when the history holds MAX_ROUNDS rows.
C6_RoundCap ==
  /\ round <= MAX_ROUNDS - 1
  /\ pc = "done" =>
       /\ Len(out) = 1
       /\ label = "other" => round = MAX_ROUNDS - 1

\* a game that ended with "other"
C6_Witness == pc = "done" /\ out = <<"other">> /\ round = MAX_ROUNDS - 1

\* C7: every game ends; when it has ended exactly one label was printed;
\* never more than one label is printed; once a label is printed no row is
\* derived and nothing more is printed; nothing raises.
C7_OneLabelThenStop ==
  /\ <>(pc = "done")
  /\ [](pc = "done" => Len(out) = 1)
  /\ [](Len(out) <= 1 /\ pc # "crash")
  /\ [][out # <<>> => (lines' = lines /\ out' = out)]_vars

\* a game that ended with a label after several rounds
C7_Witness == pc = "done" /\ Len(out) = 1 /\ round >= 3

\* C8: once printPattern has run, "vanishing" was printed exactly when the
\* last row has no filled square and the history holds an earlier row; and
\* a game started on a single filled square derives a blank row first and
\* prints "vanishing" right after that derivation.
C8_VanishingIff ==
  /\ pc \in {"test", "done"} =>
       (out = <<"vanishing">> <=>
          (~hasFilled(lines[Len(lines)]) /\ Len(lines) >= 2))
  /\ (gameHistory /\ Cardinality(world[1]) = 1) =>
       /\ Len(lines) >= 2 => ~hasFilled(lines[2])
       /\ pc \in {"test", "done"} => (out = <<"vanishing">> /\ round = 1)

\* the game started on a single filled square has printed "vanishing"
C8_Witness ==
  /\ gameHistory
  /\ Cardinality(world[1]) = 1
  /\ pc = "done"
  /\ out = <<"vanishing">>

\* C9 as stated: a game started on a blank row never prints "vanishing" and
\* ends with "other" when the history holds MAX_ROUNDS rows.
C9_EmptyStartIsOther ==
  ~hasFilled(lines[1]) =>
    /\ out # <<"vanishing">>
    /\ pc = "done" => (out = <<"other">> /\ Len(lines) = MAX_ROUNDS)

\* C9 amended: a game started on a blank row derives one blank row and
\* prints "vanishing" right after that first derivation; it never prints
\* "other".
C9_EmptyStartVanishes ==
  ~hasFilled(lines[1]) =>
    /\ \A n \in 1..Len(lines) : ~hasFilled(lines[n])
    /\ round <= 1
    /\ out \in {<<>>, <<"vanishing">>}
    /\ pc = "done" => (out = <<"vanishing">> /\ round = 1)

\* a game started on a blank row has ended
C9_Witness == ~hasFilled(lines[1]) /\ pc = "done" /\ round = 1

\* C10: once printPattern has run on a history, what it printed is decided
\* by the smallest earlier index at which any test succeeds: "vanishing" if
\* the last row is blank, else "blinking" if the last row is identical to
\* that row, else "gliding"; nothing (or "other" at MAX_ROUNDS rows) if no
\* test succeeds at any index; and "gliding" is printed only for rows whose
\* stripped lengths are equal.
C10_FirstHitWins ==
  pc \in {"test", "done"} =>
    /\ hits = {} =>
         out = (IF Len(lines) >= MAX_ROUNDS THEN <<"other">> ELSE <<>>)
    /\ hits # {} =>
         out = << IF ~hasFilled(lines[Len(lines)]) THEN "vanishing"
                  ELSE IF blinkAt(Min(hits)) THEN "blinking"
                  ELSE "gliding" >>
    /\ out = <<"gliding">> =>
         Len(core(lines[Len(lines)])) = Len(core(lines[Min(hits)]))

\* "gliding" printed for a shifted match at a smaller index although an
\* identical row stands at a larger index
C10_Witness ==
  /\ pc = "done"
  /\ out = <<"gliding">>
  /\ \E m1, m2 \in 1..(Len(lines) - 1) :
       /\ m1 < m2
       /\ glideAt(m1)
       /\ ~blinkAt(m1)
       /\ blinkAt(m2)


\* C11: "other" is printed only when the history holds exactly MAX_ROUNDS
\* rows and no test of printPattern succeeds on any earlier row; when the
\* row that brings the history to MAX_ROUNDS rows does match an earlier
\* row, the label of the pattern is printed, not "other".
C11_OtherOnlyAtCap ==
  /\ out = <<"other">> => (Len(lines) = MAX_ROUNDS /\ hits = {})
  /\ (pc = "done" /\ Len(lines) = MAX_ROUNDS /\ hits # {}) =>
       out \in {<<"vanishing">>, <<"blinking">>, <<"gliding">>}
  /\ \A k \in 1..Len(out) : out[k] = "other" => k = 1

\* "other" has been printed for MAX_ROUNDS rows none of which matches the
\* last one
C11_Witness ==
  /\ out = <<"other">>
  /\ Len(lines) = MAX_ROUNDS
  /\ hits = {}

\* C12: a step of fillNextLine makes the history one row longer and leaves
\* the rows it held unchanged and in place; every other step (printPattern,
\* the loop test) leaves the history unchanged.
C12_AppendOnly ==
  /\ [][pc = "fill" =>
          /\ Len(lines') = Len(lines) + 1
          /\ SubSeq(lines', 1, Len(lines)) = lines]_vars
  /\ [][pc # "fill" => lines' = lines]_vars

\* fillNextLine and printPattern have both run twice
C12_Witness == pc = "test" /\ Len(lines) = 3 /\ out = <<>>


\* C13: fillNextLine applied to a blank row of any length from 1 on raises
\* nothing and appends a row that is blank again.
C13_NoSpontaneousGeneration ==
  /\ pc # "crash"
  /\ ~hasFilled(lines[Len(lines)]) =>
       \A i \in visited(lines[Len(lines)]) : ~OutOfRange(lines[Len(lines)], i)
  /\ (pc = "print" /\ ~hasFilled(lines[1])) =>
       /\ Len(lines) = 2
       /\ Len(lines[2]) >= 1
       /\ wellFormed(lines[2])
       /\ ~hasFilled(lines[2])

\* fillNextLine has run on the blank row of length 1, the only blank row on
\* which its loop visits an index
C13_Witness ==
  /\ pc = "print"
  /\ Len(lines) = 2
  /\ lines[1] = <<" ">>
  /\ visited(lines[1]) = {0}


\* C18 as stated: for every row of length 1 or more, blank rows of length 1
\* or 2 included, padTrimLine applied twice gives what it gives applied once.
C18_PadIdempotent == pc = "padded" => lines[3] = lines[2]

\* C18 amended: padTrimLine applied twice gives what it gives applied once
\* for every row that has a filled square or is at least 3 long; a blank
\* row of length 1 or 2 becomes 5 or 4 blanks, and 3 blanks when padTrimLine
\* is applied again.
C18_PadIdempotentButShortBlank ==
  pc = "padded" =>
    /\ (hasFilled(lines[1]) \/ Len(lines[1]) >= 3) => lines[3] = lines[2]
    /\ (~hasFilled(lines[1]) /\ Len(lines[1]) < 3) =>
         /\ lines[2] = Blanks(6 - Len(lines[1]))
         /\ lines[3] = Blanks(3)

\* padTrimLine has been applied twice to a row with a filled square that
\* its first application changed
C18_Witness ==
  /\ pc = "padded"
  /\ hasFilled(lines[1])
  /\ lines[2] # lines[1]
  /\ lines[3] = lines[2]


\* C14: stored index i denotes the same position of the unbounded row in
\* every row of the history: the filled squares of row n are stored at the
\* positions the rule gives them, counted from the first row's index 0.
C14_AlignmentPreserved ==
  \A n \in 1..Len(lines) : cellsOf(lines[n]) = world[n]

\* the row read from right to left
Reverse(row) == [k \in 1..Len(row) |-> row[Len(row) + 1 - k]]

\* C16: the game on the mirror image of the starting row prints the same
\* label as the game on the starting row, with the same number of lines.
C16_MirrorSameOutcome ==
  (pc = "done" /\ Len(out) = 1) =>
    playFrom(<<padTrimLine(Reverse(lines[1]))>>) = <<label, Len(lines)>>

\* C15: while no label is printed and printPattern has run on the last
\* row, the rows of the history are pairwise distinct once stripped and
\* only the first row may be blank; so when a label is printed at most one
\* earlier row equals the last row once stripped, and an identical earlier
\* row always gives "blinking".
C15_RunningRowsDistinct ==
  /\ (out = <<>> /\ pc \in {"test", "fill"}) =>
       /\ Cardinality({core(lines[n]) : n \in 1..Len(lines)}) = Len(lines)
       /\ \A n \in 2..Len(lines) : hasFilled(lines[n])
  /\ pc = "done" =>
       /\ Cardinality({m \in 1..(Len(lines) - 1) : glideAt(m)}) <= 1
       /\ (hasFilled(lines[Len(lines)]) /\ \E m \in 1..(Len(lines) - 1) : blinkAt(m))
            => out = <<"blinking">>

\* a game that ran at least 5 rounds without a label and then printed one
\* for a row that equals exactly one earlier row once stripped
C15_Witness ==
  /\ pc = "done"
  /\ Len(lines) >= 6
  /\ Cardinality({m \in 1..(Len(lines) - 1) : glideAt(m)}) = 1

\* C17: one derivation moves the first filled square at most one position
\* to the left and the last one at most one to the right, puts at most one
\* more blank in front of the stored row, and makes the stored row at most
\* 2 longer; so no row is longer than the first row plus
\* 2 * (MAX_ROUNDS - 1).
C17_BoundedGrowth ==
  /\ \A n \in 2..Len(lines) :
       /\ Len(lines[n]) <= Len(lines[n - 1]) + 2
       /\ (hasFilled(lines[n - 1]) /\ hasFilled(lines[n])) =>
            /\ Min(world[n]) >= Min(world[n - 1]) - 1
            /\ Max(world[n]) <= Max(world[n - 1]) + 1
            /\ (Min(cellsOf(lines[n])) - Min(world[n]))
                 - (Min(cellsOf(lines[n - 1])) - Min(world[n - 1])) \in {0, 1}
  /\ \A n \in 1..Len(lines) :
       Len(lines[n]) <= Len(lines[1]) + 2 * (MAX_ROUNDS - 1)

\* a derivation that grew by one square on each side and made the stored
\* row 2 longer
C17_Witness ==
  /\ Len(lines) >= 2
  /\ hasFilled(lines[1])
  /\ hasFilled(lines[2])
  /\ Min(world[2]) = Min(world[1]) - 1
  /\ Max(world[2]) = Max(world[1]) + 1
  /\ Len(lines[2]) = Len(lines[1]) + 2

====
